---- MODULE Spec2Model ----
(***************************************************************************)
(* Model of the tree-construction optimizer of baue_baum.py: the access    *)
(* cost model (access_costs, get_ratios), the exact solver (iter_nsplits,  *)
(* bruteforce_worker, bruteforce), the ratio heuristic                     *)
(* (get_ratio_splitpositions), the recursive builder (ratio_based_tree)    *)
(* and the traversal of the materializer (move_recursively).               *)
(*                                                                         *)
(* Python floats are IEEE-754 binary64 values.  The heuristic decides its  *)
(* cuts by comparing rounded quotients, so the model carries binary64      *)
(* arithmetic with round-to-nearest-even (section "binary64") instead of   *)
(* exact rationals.  Costs of trees over integer-valued weights are exact  *)
(* in binary64 and are kept as exact naturals (sequences of limbs), wide   *)
(* enough for the placeholder 0xCAFFEBABE; so are the total weights that   *)
(* the exact solver returns.                                               *)
(***************************************************************************)
EXTENDS Integers, Sequences, FiniteSets, TLC

----------------------------------------------------------------------------
(* Natural numbers of arbitrary size: little-endian sequences of limbs in  *)
(* 0..LimbBase-1 without leading zero limbs; <<>> is 0.                    *)

Min(a, b) == IF a <= b THEN a ELSE b

LimbBits == 15
LimbBase == 2^LimbBits

RECURSIVE BNorm(_)
BNorm(x) ==
    IF x = <<>> THEN <<>>
    ELSE IF x[Len(x)] = 0 THEN BNorm(SubSeq(x, 1, Len(x) - 1))
    ELSE x

RECURSIVE BFromInt(_)
BFromInt(n) ==
    IF n = 0 THEN <<>> ELSE <<n % LimbBase>> \o BFromInt(n \div LimbBase)

RECURSIVE BAddC(_, _, _)
BAddC(x, y, c) ==
    IF x = <<>> /\ y = <<>> THEN (IF c = 0 THEN <<>> ELSE <<c>>)
    ELSE LET a == IF x = <<>> THEN 0 ELSE Head(x)
             b == IF y = <<>> THEN 0 ELSE Head(y)
             s == a + b + c
         IN  <<s % LimbBase>>
                \o BAddC(IF x = <<>> THEN <<>> ELSE Tail(x),
                         IF y = <<>> THEN <<>> ELSE Tail(y),
                         s \div LimbBase)

BAdd(x, y) == BAddC(x, y, 0)

RECURSIVE BSubC(_, _, _)
BSubC(x, y, c) ==
    IF x = <<>> THEN <<>>
    ELSE LET b == IF y = <<>> THEN 0 ELSE Head(y)
             d == Head(x) - b - c
         IN  <<IF d < 0 THEN d + LimbBase ELSE d>>
                \o BSubC(Tail(x),
                         IF y = <<>> THEN <<>> ELSE Tail(y),
                         IF d < 0 THEN 1 ELSE 0)

\* x - y for x >= y
BSub(x, y) == BNorm(BSubC(x, y, 0))

RECURSIVE BCmpAt(_, _, _)
BCmpAt(x, y, i) ==
    IF i = 0 THEN 0
    ELSE IF x[i] < y[i] THEN -1
    ELSE IF x[i] > y[i] THEN 1
    ELSE BCmpAt(x, y, i - 1)

\* -1, 0, 1 as x <, =, > y
BCmp(x, y) ==
    IF Len(x) < Len(y) THEN -1
    ELSE IF Len(x) > Len(y) THEN 1
    ELSE BCmpAt(x, y, Len(x))

RECURSIVE BMulSmallC(_, _, _)
BMulSmallC(x, k, c) ==
    IF x = <<>> THEN (IF c = 0 THEN <<>> ELSE <<c>>)
    ELSE LET s == Head(x) * k + c
         IN  <<s % LimbBase>> \o BMulSmallC(Tail(x), k, s \div LimbBase)

\* x * k for 0 <= k < LimbBase
BMulSmall(x, k) == IF k = 0 THEN <<>> ELSE BMulSmallC(x, k, 0)

BShlLimbs(x, n) == IF x = <<>> THEN <<>> ELSE [i \in 1..n |-> 0] \o x

RECURSIVE BMul(_, _)
BMul(x, y) ==
    IF y = <<>> THEN <<>>
    ELSE BAdd(BMulSmall(x, Head(y)), BShlLimbs(BMul(x, Tail(y)), 1))

\* x * 2^n
BShl(x, n) == BMulSmall(BShlLimbs(x, n \div LimbBits), 2^(n % LimbBits))

\* x \div 2^n
BShr(x, n) ==
    LET l == n \div LimbBits
        p == 2^(n % LimbBits)
        y == IF l >= Len(x) THEN <<>> ELSE SubSeq(x, l + 1, Len(x))
    IN  BNorm([i \in 1..Len(y) |->
                 (y[i] \div p)
                   + (IF i < Len(y) THEN (y[i + 1] % p) * (LimbBase \div p) ELSE 0)])

\* x % 2^n
BLow(x, n) ==
    LET l == n \div LimbBits
        p == 2^(n % LimbBits)
    IN  IF l >= Len(x) THEN x
        ELSE BNorm(SubSeq(x, 1, l) \o <<x[l + 1] % p>>)

RECURSIVE IntBitLen(_)
IntBitLen(k) == IF k = 0 THEN 0 ELSE 1 + IntBitLen(k \div 2)

BBitLen(x) ==
    IF x = <<>> THEN 0 ELSE LimbBits * (Len(x) - 1) + IntBitLen(x[Len(x)])

BOdd(x) == x # <<>> /\ x[1] % 2 = 1

----------------------------------------------------------------------------
(* binary64: a float is [neg, m, e] with value (-1)^neg * m * 2^e, where m *)
(* is 0 or has exactly MantBits bits (normal numbers; the values of the    *)
(* model stay far from the subnormal and overflow ranges).                 *)

MantBits == 53

FZero == [neg |-> FALSE, m |-> <<>>, e |-> 0]

\* q rounded to MantBits bits at exponent e, after the carry of the rounding
FRoundCarry(q, e) ==
    IF BBitLen(q) > MantBits
      THEN [neg |-> FALSE, m |-> BShr(q, 1), e |-> e + 1]
      ELSE [neg |-> FALSE, m |-> q, e |-> e]

\* q are the bits kept and c compares the bits cut off with half a unit in
\* the last place: up if more than half, or half and q odd
FRoundCut(q, c, e) ==
    FRoundCarry(IF c > 0 \/ (c = 0 /\ BOdd(q)) THEN BAdd(q, <<1>>) ELSE q, e)

\* n of nb bits
FRoundBits(n, e, nb) ==
    IF nb = 0 THEN FZero
    ELSE IF nb <= MantBits
      THEN [neg |-> FALSE, m |-> BShl(n, MantBits - nb), e |-> e - (MantBits - nb)]
    ELSE FRoundCut(BShr(n, nb - MantBits),
                   BCmp(BLow(n, nb - MantBits), BShl(<<1>>, nb - MantBits - 1)),
                   e + nb - MantBits)

\* the binary64 nearest to n * 2^e, ties to even, n >= 0
FRound(n, e) == FRoundBits(n, e, BBitLen(n))

\* float(n) for an integer n >= 0
FFromInt(n) == FRound(BFromInt(n), 0)

FNeg(x) == IF x.m = <<>> THEN x ELSE [x EXCEPT !.neg = ~x.neg]

FAbs(x) == [x EXCEPT !.neg = FALSE]

\* -1, 0, 1 as |x| <, =, > |y|
FCmpAbs(x, y) ==
    IF x.m = <<>> /\ y.m = <<>> THEN 0
    ELSE IF x.m = <<>> THEN -1
    ELSE IF y.m = <<>> THEN 1
    ELSE IF x.e < y.e THEN -1
    ELSE IF x.e > y.e THEN 1
    ELSE BCmp(x.m, y.m)

\* -1, 0, 1 as x <, =, > y
FCmp(x, y) ==
    IF x.neg /\ y.neg THEN FCmpAbs(y, x)
    ELSE IF x.neg THEN -1
    ELSE IF y.neg THEN 1
    ELSE FCmpAbs(x, y)

FLess(x, y) == FCmp(x, y) < 0
FGeq(x, y)  == FCmp(x, y) >= 0

\* x with the sign neg
FSigned(x, neg) == IF neg THEN FNeg(x) ELSE x

\* sn = <<neg, n>>: the binary64 nearest to (-1)^neg * n * 2^e
FRoundSigned(sn, e) == FSigned(FRound(sn[2], e), sn[1])

\* <<neg, n>> of the sum of the integers (-1)^aneg * a and (-1)^bneg * b
BAddSigned(a, aneg, b, bneg) ==
    IF aneg = bneg THEN <<aneg, BAdd(a, b)>>
    ELSE IF BCmp(a, b) >= 0 THEN <<aneg, BSub(a, b)>>
    ELSE <<bneg, BSub(b, a)>>

\* hi + lo for hi.e >= lo.e, neither 0: the mantissas are aligned at lo.e
\* and added exactly, then rounded once; a lo below a quarter of the last
\* place of hi changes nothing
FAddAligned(hi, lo) ==
    IF hi.e - lo.e > MantBits + 2 THEN hi
    ELSE FRoundSigned(BAddSigned(BShl(hi.m, hi.e - lo.e), hi.neg, lo.m, lo.neg), lo.e)

\* x + y
FAdd(x, y) ==
    IF x.m = <<>> THEN y
    ELSE IF y.m = <<>> THEN x
    ELSE FAddAligned(IF x.e >= y.e THEN x ELSE y, IF x.e >= y.e THEN y ELSE x)

\* x - y
FSub(x, y) == FAdd(x, FNeg(y))

\* x * y
FMul(x, y) ==
    IF x.m = <<>> \/ y.m = <<>> THEN FZero
    ELSE FRoundSigned(<<x.neg # y.neg, BMul(x.m, y.m)>>, x.e + y.e)

DivBits == MantBits + 2

RECURSIVE BDivDigit(_, _, _)
\* the largest q <= qhat with v * q <= r
BDivDigit(r, v, qhat) ==
    IF BCmp(BMulSmall(v, qhat), r) <= 0 THEN qhat ELSE BDivDigit(r, v, qhat - 1)

\* one step of the long division by v: the limb u_i is brought down to the
\* remainder of prev = <<quotient, remainder>>
BDivStep(u_i, v, prev) ==
    LET r == BNorm(<<u_i>> \o prev[2])
        n == Len(v)
        t == (IF Len(r) > n THEN r[n + 1] * LimbBase ELSE 0) + r[n]
        q == IF BCmp(r, v) < 0 THEN 0
             ELSE BDivDigit(r, v, Min(t \div v[n], LimbBase - 1))
    IN  <<BNorm(<<q>> \o prev[1]), BSub(r, BMulSmall(v, q))>>

RECURSIVE BDivAt(_, _, _)
\* long division in base LimbBase of the limbs i..Len(u) of u by v, whose
\* top limb is at least LimbBase \div 2: <<quotient, remainder>>
BDivAt(u, v, i) ==
    IF i > Len(u) THEN <<<<>>, <<>>>>
    ELSE BDivStep(u[i], v, BDivAt(u, v, i + 1))

\* qr = <<quotient, remainder>>: the quotient with a sticky bit appended
BSticky(qr) == BAdd(BAdd(qr[1], qr[1]), IF qr[2] # <<>> THEN <<1>> ELSE <<>>)

\* x / y for y # 0: the quotient of the mantissas to DivBits fractional
\* bits by long division (the divisor shifted by s to fill its top limb), a
\* sticky bit for the remainder, then one rounding
FDivShifted(x, y, s) ==
    FRoundSigned(<<x.neg # y.neg,
                   BSticky(BDivAt(BShl(x.m, DivBits + s), BShl(y.m, s), 1))>>,
                 x.e - y.e - DivBits - 1)

FDiv(x, y) ==
    IF x.m = <<>> THEN FZero
    ELSE FDivShifted(x, y, LimbBits * Len(y.m) - BBitLen(y.m))

----------------------------------------------------------------------------
(* Values shared by the operations.  A call either returns a value or      *)
(* raises; a raised exception is carried as the name of its class.         *)

\* a Python list built by a comprehension: every element is computed once
List(f) == f \o <<>>

RECURSIVE Sum(_)
\* sum() of a tuple of integer-valued weights (exact in binary64, so the
\* order of the additions does not matter: the two halves are summed)
Sum(ws) ==
    IF ws = <<>> THEN 0
    ELSE IF Len(ws) = 1 THEN ws[1]
    ELSE Sum(SubSeq(ws, 1, Len(ws) \div 2))
           + Sum(SubSeq(ws, Len(ws) \div 2 + 1, Len(ws)))

RECURSIVE WeightSum(_)
\* sum() of a tuple of integer-valued weights as an exact natural of
\* arbitrary size: the total weight of a sequence of large weights
WeightSum(ws) ==
    IF ws = <<>> THEN <<>>
    ELSE IF Len(ws) = 1 THEN BFromInt(ws[1])
    ELSE BAdd(WeightSum(SubSeq(ws, 1, Len(ws) \div 2)),
              WeightSum(SubSeq(ws, Len(ws) \div 2 + 1, Len(ws))))

RECURSIVE FSum(_, _)
\* sum() of a list of floats, left to right, from the accumulator acc
FSum(xs, acc) == IF xs = <<>> THEN acc ELSE FSum(Tail(xs), FAdd(acc, Head(xs)))

Returned(v) == [exc |-> "none", val |-> v]
Raised(e)   == [exc |-> e, val |-> <<>>]

\* d[k] = v on a dict
DictSet(d, k, v) == (k :> v) @@ d

\* the members of enum AccessType
AccessType == {"WRAPPABLE", "LINEAR", "CONSTANT"}

----------------------------------------------------------------------------
(* access_costs, get_ratios                                                *)

\* access costs counted from 0 under LINEAR
access_costs_from_zero(max_branching_factor, access_type) ==
    IF access_type = "WRAPPABLE"
      THEN Returned(<<1>> \o [n \in 1..(max_branching_factor - 1) |->
                               Min(n, max_branching_factor - n) + 1])
    ELSE IF access_type = "LINEAR"
      THEN Returned([i \in 1..max_branching_factor |-> i - 1])
    ELSE IF access_type = "CONSTANT"
      THEN Returned([i \in 1..max_branching_factor |-> 1])
    ELSE Raised("IllegalArgumentException")

\* access costs without the way round from the first to the last position
access_costs_unwrapped(max_branching_factor, access_type) ==
    IF access_type \in {"WRAPPABLE", "LINEAR"}
      THEN Returned([i \in 1..max_branching_factor |-> i])
    ELSE IF access_type = "CONSTANT"
      THEN Returned([i \in 1..max_branching_factor |-> 1])
    ELSE Raised("IllegalArgumentException")

access_costs(max_branching_factor, access_type) ==
    IF access_type = "WRAPPABLE"
      THEN Returned(<<1>> \o [n \in 1..(max_branching_factor - 1) |->
                               Min(n, max_branching_factor - n) + 1])
    ELSE IF access_type = "LINEAR"
      THEN Returned([i \in 1..max_branching_factor |-> i])
    ELSE IF access_type = "CONSTANT"
      THEN Returned([i \in 1..max_branching_factor |-> 1])
    ELSE Raised("IllegalArgumentException")

\* the literal 1e-6: the binary64 nearest to 10^-6
RatioTolerance == FDiv(FFromInt(1), FFromInt(10^6))

\* ratios that are not divided by their sum
Unnormed(ratios_unnormed, sum_) == ratios_unnormed

\* [r / sum_ for r in ratios_unnormed]
Normed(ratios_unnormed, sum_) ==
    List([i \in 1..Len(ratios_unnormed) |-> FDiv(ratios_unnormed[i], sum_)])

\* "assert abs(sum(ratios) - 1) < 1e-6; return ratios"
AssertSumsToOne(ratios) ==
    IF FLess(FAbs(FSub(FSum(ratios, FZero), FFromInt(1))), RatioTolerance)
      THEN Returned(ratios)
      ELSE Raised("AssertionError")

\* ratios of the list ratios_unnormed
RatiosOf(ratios_unnormed) ==
    AssertSumsToOne(Normed(ratios_unnormed, FSum(ratios_unnormed, FZero)))

get_ratios(costs) ==
    RatiosOf(List([i \in 1..Len(costs) |-> FDiv(FFromInt(1), FFromInt(costs[i]))]))

----------------------------------------------------------------------------
(* split_to_lists, iter_nsplits                                            *)

split_to_lists(inlist, insplit) ==
    LET split == <<0>> \o insplit \o <<Len(inlist)>>
    IN  [j \in 1..(Len(split) - 1) |-> SubSeq(inlist, split[j] + 1, split[j + 1])]

RECURSIVE iter_nsplits_worker(_, _, _, _)
RECURSIVE iter_nsplits_range(_, _, _, _, _)

\* a worker whose loop stops one position early
iter_nsplits_worker_short(nof_elems, num_splits, start_idx, start_tuple) ==
    IF num_splits = 0 THEN <<start_tuple>>
    ELSE iter_nsplits_range(nof_elems, num_splits, start_idx,
                            nof_elems - num_splits - 1, start_tuple)

\* the tuples the generator yields, in the order it yields them
iter_nsplits_worker(nof_elems, num_splits, start_idx, start_tuple) ==
    IF num_splits = 0 THEN <<start_tuple>>
    ELSE iter_nsplits_range(nof_elems, num_splits, start_idx,
                            nof_elems - num_splits, start_tuple)

\* the loop "for split_pos in range(start_idx, nof_elems - num_splits + 1)"
\* from split_pos on, last being its last value
iter_nsplits_range(nof_elems, num_splits, split_pos, last, start_tuple) ==
    IF split_pos > last THEN <<>>
    ELSE iter_nsplits_worker(nof_elems, num_splits - 1, split_pos + 1,
                             Append(start_tuple, split_pos))
           \o iter_nsplits_range(nof_elems, num_splits, split_pos + 1, last,
                                 start_tuple)

\* a generator without the check of its arguments
iter_nsplits_unchecked(nof_elems, num_splits) ==
    Returned(iter_nsplits_worker(nof_elems, num_splits, 1, <<>>))

iter_nsplits(nof_elems, num_splits) ==
    IF nof_elems <= num_splits THEN Raised("ValueError")
    ELSE Returned(iter_nsplits_worker(nof_elems, num_splits, 1, <<>>))

----------------------------------------------------------------------------
(* bruteforce_worker, bruteforce.  Costs are exact naturals (limbs).  The   *)
(* worker mutates the two dicts it is given; the model threads them        *)
(* through the loops in a record "mem" and returns them with the result.   *)

\* a worker whose best cost starts from 0
ZeroPlaceholder == <<>>

\* float(0xCAFFEBABE) = 0xCAFFE * 2^16 + 0xBABE
CAFFEBABE == BAdd(BShl(BFromInt(831486), 16), BFromInt(47806))

BruteForceResult(costs, weight) == [costs |-> costs, weight |-> weight]

\* a worker that keeps the first split it enumerates
IsFirstSplit(total_costs, cur_split, best_split_cost, best_split) ==
    best_split = <<>>

\* a worker that replaces the best split only by a strictly cheaper one
IsCheaperSplit(total_costs, cur_split, best_split_cost, best_split) ==
    BCmp(total_costs, best_split_cost) < 0

\* total_costs < best_split_cost
\*   or (total_costs == best_split_cost and len(cur_split) > len(best_split))
IsBetterSplit(total_costs, cur_split, best_split_cost, best_split) ==
    \/ BCmp(total_costs, best_split_cost) < 0
    \/ /\ BCmp(total_costs, best_split_cost) = 0
       /\ Len(cur_split) > Len(best_split)

RECURSIVE SumOfCosts(_)
\* sum(cur_result.costs for cur_result in subtree_results)
SumOfCosts(subtree_results) ==
    IF subtree_results = <<>> THEN <<>>
    ELSE BAdd(Head(subtree_results).costs, SumOfCosts(Tail(subtree_results)))

RECURSIVE AccessCostsOf(_, _)
\* sum(access_cost * result.weight
\*     for access_cost, result in zip(costs, subtree_results))
AccessCostsOf(costs, subtree_results) ==
    IF costs = <<>> \/ subtree_results = <<>> THEN <<>>
    ELSE BAdd(BMul(BFromInt(Head(costs)), Head(subtree_results).weight),
              AccessCostsOf(Tail(costs), Tail(subtree_results)))

RECURSIVE bruteforce_worker(_, _, _, _, _)
RECURSIVE bruteforce_sublists(_, _, _, _, _)
RECURSIVE bruteforce_splits(_, _, _, _, _, _)
RECURSIVE bruteforce_num_splits(_, _, _, _, _, _)

\* the loop "for sublist in split_to_lists(...)" over the sublists left;
\* mem.subtree_results collects the results
bruteforce_sublists(access_type, max_branching_factor, sublists, j, mem) ==
    IF j > Len(sublists) \/ mem.exc # "none" THEN mem
    ELSE LET sublist == sublists[j] IN
         IF Len(sublist) = 1
           THEN bruteforce_sublists(access_type, max_branching_factor, sublists, j + 1,
                    [mem EXCEPT !.subtree_results =
                        Append(@, BruteForceResult(<<>>, BFromInt(sublist[1])))])
           ELSE LET r == bruteforce_worker(access_type, mem.costs_cache, sublist,
                                           max_branching_factor, mem.split_positions)
                IN  bruteforce_sublists(access_type, max_branching_factor, sublists, j + 1,
                        [mem EXCEPT !.exc = r.exc,
                                    !.costs_cache = r.costs_cache,
                                    !.split_positions = r.split_positions,
                                    !.subtree_results = Append(@, r.val)])

\* the loop "for cur_split in iter_nsplits(...)" over the splits left
bruteforce_splits(access_type, max_branching_factor, elements, costs, splits, mem) ==
    IF splits = <<>> \/ mem.exc # "none" THEN mem
    ELSE LET cur_split == Head(splits)
             sub == bruteforce_sublists(access_type, max_branching_factor,
                        split_to_lists(elements, cur_split), 1,
                        [mem EXCEPT !.subtree_results = <<>>])
             sum_of_subtree_costs == SumOfCosts(sub.subtree_results)
             accumulated_costs_to_access_subtrees ==
                 AccessCostsOf(costs, sub.subtree_results)
             total_costs ==
                 BAdd(sum_of_subtree_costs, accumulated_costs_to_access_subtrees)
         IN  IF sub.exc # "none" THEN sub
             ELSE bruteforce_splits(access_type, max_branching_factor, elements, costs,
                      Tail(splits),
                      IF IsBetterSplit(total_costs, cur_split,
                                       sub.best_split_cost, sub.best_split)
                        THEN [sub EXCEPT !.best_split = cur_split,
                                         !.best_split_cost = total_costs]
                        ELSE sub)

\* the loop "for num_splits in range(1, max_num_splits + 1)" from num_splits on
bruteforce_num_splits(access_type, max_branching_factor, elements, num_splits, max_num_splits, mem) ==
    IF num_splits > max_num_splits \/ mem.exc # "none" THEN mem
    ELSE LET costs  == access_costs(num_splits + 1, access_type)
             splits == iter_nsplits(Len(elements), num_splits)
         IN  IF costs.exc # "none" THEN [mem EXCEPT !.exc = costs.exc]
             ELSE IF splits.exc # "none" THEN [mem EXCEPT !.exc = splits.exc]
             ELSE bruteforce_num_splits(access_type, max_branching_factor, elements,
                      num_splits + 1, max_num_splits,
                      bruteforce_splits(access_type, max_branching_factor, elements,
                                        costs.val, splits.val, mem))

\* a worker that stores the cost of the best split but not the split
SolvedUnrecorded(mem, elements, total_weight) ==
    [exc |-> mem.exc,
     val |-> BruteForceResult(mem.best_split_cost, total_weight),
     costs_cache |-> DictSet(mem.costs_cache, elements, mem.best_split_cost),
     split_positions |-> mem.split_positions]

\* the statements after the loops: the best split and its cost are stored
\* and returned, unless the loops raised
Solved(mem, elements, total_weight) ==
    IF mem.exc # "none"
      THEN [exc |-> mem.exc, val |-> <<>>,
            costs_cache |-> mem.costs_cache,
            split_positions |-> mem.split_positions]
      ELSE [exc |-> "none",
            val |-> BruteForceResult(mem.best_split_cost, total_weight),
            costs_cache |-> DictSet(mem.costs_cache, elements, mem.best_split_cost),
            split_positions |-> DictSet(mem.split_positions, elements, mem.best_split)]

\* [exc, val: the BruteForceResult, costs_cache, split_positions]
bruteforce_worker(access_type, costs_cache, elements, max_branching_factor, split_positions) ==
    LET nof_elems    == Len(elements)
        total_weight == WeightSum(elements)
    IN  IF elements \in DOMAIN costs_cache
          THEN [exc |-> "none",
                val |-> BruteForceResult(costs_cache[elements], total_weight),
                costs_cache |-> costs_cache, split_positions |-> split_positions]
          ELSE LET max_num_splits == Min(max_branching_factor - 1, nof_elems - 1)
                   mem == bruteforce_num_splits(access_type, max_branching_factor,
                              elements, 1, max_num_splits,
                              [exc |-> "none", best_split |-> <<>>,
                               best_split_cost |-> CAFFEBABE,
                               costs_cache |-> costs_cache,
                               split_positions |-> split_positions,
                               subtree_results |-> <<>>])
               IN  Solved(mem, elements, total_weight)

bruteforce(elements, max_branching_factor, access_type, split_positions) ==
    bruteforce_worker(access_type, <<>>, elements, max_branching_factor,
                      split_positions)

----------------------------------------------------------------------------
(* get_ratio_splitpositions                                                *)

\* cumratio_weights of the elements after the cut cur_split
CumratioWeights(weight_tuple, cur_split) ==
    List([i \in 1..(Len(weight_tuple) - cur_split) |->
            FDiv(FFromInt(Sum(SubSeq(weight_tuple, cur_split + 1, cur_split + i))),
                 FFromInt(Sum(SubSeq(weight_tuple, cur_split + 1,
                                     Len(weight_tuple)))))])

RECURSIVE CandidateIdx(_, _, _)
\* is_greater.index(True) searched from i on, counted from 1; 0 if
\* is_greater holds no True
CandidateIdx(cumratio_weights, cur_ratio, i) ==
    IF i > Len(cumratio_weights) THEN 0
    ELSE IF FGeq(cumratio_weights[i], cur_ratio) THEN i
    ELSE CandidateIdx(cumratio_weights, cur_ratio, i + 1)

\* a cut always placed after the candidate element
CurSplitPosAfter(cumratio_weights, cur_ratio, candidate) == candidate

\* cur_split_pos before base_ind is added, candidate counted from 1
CurSplitPos(cumratio_weights, cur_ratio, candidate) ==
    IF candidate = 1 THEN 1
    ELSE IF FLess(FSub(cur_ratio, cumratio_weights[candidate - 1]),
                  FSub(cumratio_weights[candidate], cur_ratio))
      THEN candidate - 1
    ELSE candidate

RECURSIVE get_ratio_splitpositions_loop(_, _, _, _)

\* an iteration without the break on a cut that takes the whole suffix
LoopAppendAlways(weight_tuple, ratios, k, st, rescale_ratio, new_base_ind) ==
    IF new_base_ind > Len(weight_tuple)
      THEN [st EXCEPT !.exc = "AssertionError"]
    ELSE get_ratio_splitpositions_loop(weight_tuple, ratios, k + 1,
             [st EXCEPT !.split_positions = Append(@, new_base_ind),
                        !.base_ind = new_base_ind,
                        !.rescale_ratio = rescale_ratio])

\* the iteration from "assert cur_split_pos <= len(weight_tuple)" on
LoopAppend(weight_tuple, ratios, k, st, rescale_ratio, new_base_ind) ==
    IF new_base_ind > Len(weight_tuple)
      THEN [st EXCEPT !.exc = "AssertionError"]
    ELSE IF new_base_ind = Len(weight_tuple)
      THEN [st EXCEPT !.stop = TRUE, !.base_ind = new_base_ind,
                      !.rescale_ratio = rescale_ratio]
    ELSE get_ratio_splitpositions_loop(weight_tuple, ratios, k + 1,
             [st EXCEPT !.split_positions = Append(@, new_base_ind),
                        !.base_ind = new_base_ind,
                        !.rescale_ratio = rescale_ratio])

\* an iteration that leaves rescale_ratio as it was
LoopCandidateUnscaled(weight_tuple, ratios, k, st, cumratio_weights, cur_ratio, candidate) ==
    IF candidate = 0 THEN [st EXCEPT !.exc = "ValueError"]
    ELSE LoopAppend(weight_tuple, ratios, k, st, st.rescale_ratio,
                    st.base_ind + CurSplitPos(cumratio_weights, cur_ratio, candidate))

\* the iteration from "candidate_idx = is_greater.index(True)" on
LoopCandidate(weight_tuple, ratios, k, st, cumratio_weights, cur_ratio, candidate) ==
    IF candidate = 0 THEN [st EXCEPT !.exc = "ValueError"]
    ELSE LoopAppend(weight_tuple, ratios, k, st,
                    FMul(st.rescale_ratio, FSub(FFromInt(1), cur_ratio)),
                    st.base_ind + CurSplitPos(cumratio_weights, cur_ratio, candidate))

\* the iteration from "rescale_ratio *= 1 - cur_ratio" on
LoopRescale(weight_tuple, ratios, k, st, cumratio_weights, cur_ratio) ==
    LoopCandidate(weight_tuple, ratios, k, st, cumratio_weights, cur_ratio,
                  CandidateIdx(cumratio_weights, cur_ratio, 1))

\* the loop "for cur_ratio in ratios[:-1]" from ratios[k] on (k from 1);
\* st = [exc, stop (the break), split_positions, base_ind, rescale_ratio]
get_ratio_splitpositions_loop(weight_tuple, ratios, k, st) ==
    IF k > Len(ratios) - 1 \/ st.exc # "none" \/ st.stop THEN st
    ELSE IF /\ st.base_ind < Len(weight_tuple)
            /\ Sum(SubSeq(weight_tuple, st.base_ind + 1, Len(weight_tuple))) = 0
      THEN [st EXCEPT !.exc = "ZeroDivisionError"]
    ELSE IF st.rescale_ratio.m = <<>> THEN [st EXCEPT !.exc = "ZeroDivisionError"]
    ELSE LoopRescale(weight_tuple, ratios, k, st,
                     CumratioWeights(weight_tuple, st.base_ind),
                     FDiv(ratios[k], st.rescale_ratio))

\* "return tuple(split_positions)", or the exception of the loop
LoopResult(st) ==
    IF st.exc # "none" THEN Raised(st.exc) ELSE Returned(st.split_positions)

get_ratio_splitpositions(weight_tuple, ratios) ==
    LoopResult(get_ratio_splitpositions_loop(weight_tuple, ratios, 1,
                   [exc |-> "none", stop |-> FALSE, split_positions |-> <<>>,
                    base_ind |-> 0, rescale_ratio |-> FFromInt(1)]))

----------------------------------------------------------------------------
(* The program as a state machine.  A behaviour is one call of an entry    *)
(* point with arguments drawn from the bounded sets below: access_costs,   *)
(* get_ratios and get_ratio_splitpositions in the sequence the tests call  *)
(* them, iter_nsplits, bruteforce, and main (ratio_based_tree, then        *)
(* move_recursively).                                                      *)
(* The two recursive procedures run on an explicit call stack.  Items are  *)
(* represented by their weights: a folder_list is the tuple of the weights *)
(* weight_dict gives its entries.                                          *)

MaxLen == 4
HeavyWeight == 5
MaxBranching == 4
MaxThreshold == 4
MaxDepth == 6
MaxNofElems == 6

Weights == {1, 2, HeavyWeight}
WeightTuples == UNION {[1..n -> Weights] : n \in 0..MaxLen}
\* the members of AccessType and one value that is none of them
Policies == AccessType \cup {"UNDEFINED"}

VARIABLES
    call,                   \* the entry point of this behaviour
    access_type,            \* its arguments
    max_branching_factor,
    bruteforce_threshold,
    elements,
    nof_elems,              \* the arguments of iter_nsplits
    num_splits,
    costs_cache,            \* the dict costs_cache
    split_positions,        \* the dict split_positions
    stack,                  \* frames of ratio_based_tree / move_recursively
    pc,                     \* where the entry point stands
    exc,                    \* the exception that ended it, or "none"
    result                  \* the value the last call returned

vars == <<call, access_type, max_branching_factor, bruteforce_threshold, elements,
          nof_elems, num_splits, costs_cache, split_positions, stack, pc, exc, result>>

args == <<call, access_type, max_branching_factor, bruteforce_threshold, elements,
          nof_elems, num_splits>>

\* the arguments of a call of iter_nsplits; the other arguments are unused
IterNsplitsArgs ==
    /\ access_type = "UNDEFINED"
    /\ max_branching_factor = 0
    /\ bruteforce_threshold = 0
    /\ elements = <<>>
    /\ nof_elems \in 0..MaxNofElems
    /\ num_splits \in 0..MaxNofElems

\* the arguments of a call of the optimizer
OptimizerArgs ==
    /\ access_type \in Policies
    /\ max_branching_factor \in
         IF call \in {"access_costs", "get_ratios"} THEN 0..MaxBranching
         ELSE 2..MaxBranching
    /\ bruteforce_threshold \in IF call = "main" THEN 0..MaxThreshold ELSE {0}
    /\ elements \in IF call \in {"access_costs", "get_ratios"} THEN {<<>>}
                    ELSE WeightTuples
    /\ nof_elems = 0
    /\ num_splits = 0

Init ==
    /\ call \in {"access_costs", "get_ratios", "get_ratio_splitpositions",
                 "iter_nsplits", "bruteforce", "main"}
    /\ IF call = "iter_nsplits" THEN IterNsplitsArgs ELSE OptimizerArgs
    /\ costs_cache = <<>>
    /\ split_positions = <<>>
    /\ stack = <<>>
    /\ pc = "start"
    /\ exc = "none"
    /\ result = <<>>

\* a call that ends the entry point: returns v or raises
Finish(r) ==
    /\ pc' = IF r.exc = "none" THEN "returned" ELSE "raised"
    /\ exc' = r.exc
    /\ result' = r.val

----------------------------------------------------------------------------
(* access_costs, get_ratios, get_ratio_splitpositions called in sequence   *)

\* r is what the call returned or raised: the sequence of calls goes on
\* unless it was the last one or it raised
Continue(r, last, next_pc) ==
    IF call = last \/ r.exc # "none" THEN Finish(r)
    ELSE pc' = next_pc /\ result' = r.val /\ exc' = exc

CallAccessCosts ==
    /\ pc = "start"
    /\ call \in {"access_costs", "get_ratios", "get_ratio_splitpositions"}
    /\ Continue(access_costs(max_branching_factor, access_type),
                "access_costs", "costs")
    /\ UNCHANGED <<args, costs_cache, split_positions, stack>>

CallGetRatios ==
    /\ pc = "costs"
    /\ Continue(get_ratios(result), "get_ratios", "ratios")
    /\ UNCHANGED <<args, costs_cache, split_positions, stack>>

CallGetRatioSplitpositions ==
    /\ pc = "ratios"
    /\ Finish(get_ratio_splitpositions(elements, result))
    /\ UNCHANGED <<args, costs_cache, split_positions, stack>>

----------------------------------------------------------------------------
(* iter_nsplits, consumed to its end as list(iter_nsplits(...)) does       *)

CallIterNsplits ==
    /\ pc = "start"
    /\ call = "iter_nsplits"
    /\ Finish(iter_nsplits(nof_elems, num_splits))
    /\ UNCHANGED <<args, costs_cache, split_positions, stack>>

----------------------------------------------------------------------------
(* bruteforce, called with an empty split_positions                        *)

\* r is the outcome of the worker: its result and the two dicts it wrote
Worked(r) ==
    /\ Finish(r)
    /\ split_positions' = r.split_positions
    /\ costs_cache' = r.costs_cache

CallBruteforce ==
    /\ pc = "start"
    /\ call = "bruteforce"
    /\ Worked(bruteforce(elements, max_branching_factor, access_type,
                         split_positions))
    /\ UNCHANGED <<args, stack>>

----------------------------------------------------------------------------
(* main: ratio_based_tree, then move_recursively                           *)

Frame(fn, folder_list) ==
    [fn |-> fn, folder_list |-> folder_list, entered |-> FALSE,
     children |-> <<>>, next |-> 1]

Top == stack[Len(stack)]
Pop == SubSeq(stack, 1, Len(stack) - 1)

\* the frame on top has not run its body yet
AtEntry(fn) ==
    /\ pc = fn
    /\ stack # <<>>
    /\ Top.fn = fn
    /\ ~Top.entered

\* the frame on top is in its loop over the sublists
InLoop(fn) ==
    /\ pc = fn
    /\ stack # <<>>
    /\ Top.fn = fn
    /\ Top.entered

Raise(e) ==
    /\ pc' = "raised"
    /\ exc' = e

\* main calls ratio_based_tree with empty dicts
MainBuild ==
    /\ pc = "start"
    /\ call = "main"
    /\ pc' = "ratio_based_tree"
    /\ stack' = <<Frame("ratio_based_tree", elements)>>
    /\ UNCHANGED <<args, costs_cache, split_positions, exc, result>>

\* "if weight_tuple in costs_cache: return"
RbtCached ==
    /\ AtEntry("ratio_based_tree")
    /\ Top.folder_list \in DOMAIN costs_cache
    /\ stack' = Pop
    /\ UNCHANGED <<args, costs_cache, split_positions, pc, exc, result>>

\* a delegation that takes the table of the worker but not its cost cache
DelegatedUncached(r) ==
    /\ UNCHANGED costs_cache
    /\ split_positions' = r.split_positions
    /\ IF r.exc = "none"
         THEN stack' = Pop /\ UNCHANGED <<pc, exc>>
         ELSE Raise(r.exc) /\ UNCHANGED stack

\* r is the outcome of the worker: the dicts it wrote; the call returns
\* unless the worker raised
Delegated(r) ==
    /\ costs_cache' = r.costs_cache
    /\ split_positions' = r.split_positions
    /\ IF r.exc = "none"
         THEN stack' = Pop /\ UNCHANGED <<pc, exc>>
         ELSE Raise(r.exc) /\ UNCHANGED stack

\* "if len(weight_tuple) < bruteforce_threshold: bruteforce_worker(...)"
RbtBruteforce ==
    /\ AtEntry("ratio_based_tree")
    /\ Top.folder_list \notin DOMAIN costs_cache
    /\ Len(Top.folder_list) < bruteforce_threshold
    /\ Delegated(bruteforce_worker(access_type, costs_cache, Top.folder_list,
                                   max_branching_factor, split_positions))
    /\ UNCHANGED <<args, result>>

RECURSIVE LeafCosts(_, _)
\* sum(c * w for c, w in zip(costs, weight_tuple))
LeafCosts(costs, weight_tuple) ==
    IF costs = <<>> \/ weight_tuple = <<>> THEN <<>>
    ELSE BAdd(BMul(BFromInt(Head(costs)), BFromInt(Head(weight_tuple))),
              LeafCosts(Tail(costs), Tail(weight_tuple)))

\* "if num_elems <= max_branching_factor": the leaf of the heuristic branch
RbtLeaf ==
    /\ AtEntry("ratio_based_tree")
    /\ Top.folder_list \notin DOMAIN costs_cache
    /\ Len(Top.folder_list) >= bruteforce_threshold
    /\ Len(Top.folder_list) <= max_branching_factor
    /\ LET weight_tuple == Top.folder_list
           num_elems    == Len(weight_tuple)
           costs        == access_costs(num_elems, access_type)
           total_costs  == IF num_elems = 1 THEN <<>>
                           ELSE LeafCosts(costs.val, weight_tuple)
       IN  IF costs.exc # "none"
             THEN Raise(costs.exc) /\ UNCHANGED <<costs_cache, split_positions, stack>>
             ELSE /\ costs_cache' = DictSet(costs_cache, weight_tuple, total_costs)
                  /\ split_positions' = DictSet(split_positions, weight_tuple, <<>>)
                  /\ stack' = Pop
                  /\ UNCHANGED <<pc, exc>>
    /\ UNCHANGED <<args, result>>

\* cur_split_positions of the heuristic branch: get_ratio_splitpositions on
\* the ratios of the access costs
HeuristicSplit(weight_tuple) ==
    LET costs  == access_costs(max_branching_factor, access_type)
        ratios == IF costs.exc = "none" THEN get_ratios(costs.val) ELSE costs
    IN  IF ratios.exc = "none"
          THEN get_ratio_splitpositions(weight_tuple, ratios.val)
          ELSE ratios

\* the sublists folder_list[begin:end] of the loop over range_tuple
Sublists(folder_list, cuts) ==
    LET range_tuple == <<0>> \o cuts \o <<Len(folder_list)>>
    IN  [j \in 1..(Len(range_tuple) - 1) |->
           SubSeq(folder_list, range_tuple[j] + 1, range_tuple[j + 1])]

\* a builder that recurses into the sublists without recording the cuts
Unrecorded(weight_tuple, cur_split_positions) ==
    IF cur_split_positions.exc # "none"
      THEN Raise(cur_split_positions.exc) /\ UNCHANGED <<split_positions, stack>>
      ELSE /\ UNCHANGED split_positions
           /\ stack' = [stack EXCEPT ![Len(stack)] =
                 [@ EXCEPT !.entered = TRUE,
                           !.children =
                              Sublists(weight_tuple, cur_split_positions.val)]]
           /\ UNCHANGED <<pc, exc>>

\* the cuts are recorded and the loop over the sublists begins
Recorded(weight_tuple, cur_split_positions) ==
    IF cur_split_positions.exc # "none"
      THEN Raise(cur_split_positions.exc) /\ UNCHANGED <<split_positions, stack>>
      ELSE /\ split_positions' =
                 DictSet(split_positions, weight_tuple, cur_split_positions.val)
           /\ stack' = [stack EXCEPT ![Len(stack)] =
                 [@ EXCEPT !.entered = TRUE,
                           !.children =
                              Sublists(weight_tuple, cur_split_positions.val)]]
           /\ UNCHANGED <<pc, exc>>

\* the heuristic split of a list longer than max_branching_factor
RbtSplit ==
    /\ AtEntry("ratio_based_tree")
    /\ Top.folder_list \notin DOMAIN costs_cache
    /\ Len(Top.folder_list) >= bruteforce_threshold
    /\ Len(Top.folder_list) > max_branching_factor
    /\ Recorded(Top.folder_list, HeuristicSplit(Top.folder_list))
    /\ UNCHANGED <<args, costs_cache, result>>

\* the next recursive call of the loop; the interpreter's recursion limit
\* is MaxDepth frames
Recurse(fn) ==
    /\ InLoop(fn)
    /\ Top.next <= Len(Top.children)
    /\ IF Len(stack) >= MaxDepth
         THEN Raise("RecursionError") /\ UNCHANGED stack
         ELSE /\ stack' = Append([stack EXCEPT ![Len(stack)].next = @ + 1],
                                 Frame(fn, Top.children[Top.next]))
              /\ UNCHANGED <<pc, exc>>
    /\ UNCHANGED <<args, costs_cache, split_positions, result>>

\* the loop is over: the call returns
Return(fn) ==
    /\ InLoop(fn)
    /\ Top.next > Len(Top.children)
    /\ stack' = Pop
    /\ UNCHANGED <<args, costs_cache, split_positions, pc, exc, result>>

RbtRecurse == Recurse("ratio_based_tree")
RbtReturn == Return("ratio_based_tree")

\* ratio_based_tree has returned to main, which calls move_recursively
MainMove ==
    /\ pc = "ratio_based_tree"
    /\ stack = <<>>
    /\ pc' = "move_recursively"
    /\ stack' = <<Frame("move_recursively", elements)>>
    /\ UNCHANGED <<args, costs_cache, split_positions, exc, result>>

\* the groups of more than one element cut at the recorded positions
MoveInstructions(folder_list, cuts) ==
    LET split_tuple == <<0>> \o cuts \o <<Len(folder_list)>>
        parts == [j \in 1..(Len(split_tuple) - 1) |->
                    SubSeq(folder_list, split_tuple[j] + 1, split_tuple[j + 1])]
    IN  SelectSeq(parts, LAMBDA to_append : Len(to_append) > 1)

\* the body of move_recursively up to its loop of recursive calls; the
\* moves of move_folders are outside the model
MoveEnter ==
    /\ AtEntry("move_recursively")
    /\ LET folder_list  == Top.folder_list
           weight_tuple == folder_list
       IN  IF weight_tuple \notin DOMAIN split_positions
             THEN Raise("KeyError") /\ UNCHANGED stack
           ELSE LET cuts == split_positions[weight_tuple]
                    split_tuple == <<0>> \o cuts \o <<Len(folder_list)>>
                IN  IF cuts = <<>>
                      THEN stack' = Pop /\ UNCHANGED <<pc, exc>>
                    ELSE IF ~(cuts[Len(cuts)] < Len(folder_list))
                      THEN Raise("AssertionError") /\ UNCHANGED stack
                    ELSE IF \E j \in 1..(Len(split_tuple) - 1) :
                                ~(split_tuple[j] < split_tuple[j + 1])
                      THEN Raise("AssertionError") /\ UNCHANGED stack
                    ELSE /\ stack' = [stack EXCEPT ![Len(stack)] =
                               [@ EXCEPT !.entered = TRUE,
                                         !.children =
                                            MoveInstructions(folder_list, cuts)]]
                         /\ UNCHANGED <<pc, exc>>
    /\ UNCHANGED <<args, costs_cache, split_positions, result>>

MoveRecurse == Recurse("move_recursively")
MoveReturn == Return("move_recursively")

MainReturn ==
    /\ pc = "move_recursively"
    /\ stack = <<>>
    /\ pc' = "returned"
    /\ UNCHANGED <<args, costs_cache, split_positions, stack, exc, result>>

Next ==
    \/ CallAccessCosts
    \/ CallGetRatios
    \/ CallGetRatioSplitpositions
    \/ CallIterNsplits
    \/ CallBruteforce
    \/ MainBuild
    \/ RbtCached
    \/ RbtBruteforce
    \/ RbtLeaf
    \/ RbtSplit
    \/ RbtRecurse
    \/ RbtReturn
    \/ MainMove
    \/ MoveEnter
    \/ MoveRecurse
    \/ MoveReturn
    \/ MainReturn

Spec == Init /\ [][Next]_vars

----------------------------------------------------------------------------
(* The calls of the test scenarios: the two partitioners on long runs of   *)
(* equal weights and on the sequences with one huge element of             *)
(* test_bruteforce_splitsearch.py and test_tree_construction.py.  On these *)
(* sequences bruteforce_worker runs step by step on the call stack: one    *)
(* step per sublist of a split, one per comparison of a split with the     *)
(* best one, one per iteration of the loop over num_splits.                *)

LeadingElems == 7
HugeWeight == 9247
TrailingElems == 2
ManyElems == 128
ScenarioBranching == 4
MaxEqualLen == 12
MaxScenarioBranching == 6
MaxWeight == 2147483646
MaxMagnitudeLen == 8

\* n elements of weight w
EqualWeights(n, w) == [i \in 1..n |-> w]

\* the sequences of equal weights the heuristic is run on
EqualTuples == {EqualWeights(n, w) : n \in 1..MaxEqualLen, w \in Weights}

\* up to seven items of weight 1.0, for the exact solver
FewElemTuples == {EqualWeights(n, 1) : n \in 1..LeadingElems}

\* seven items of weight 1.0, one huge item, then m items of weight 1.0
HugeElemTuple(m) ==
    EqualWeights(LeadingElems, 1) \o <<HugeWeight>> \o EqualWeights(m, 1)

HugeElemTuples == {HugeElemTuple(m) : m \in 0..TrailingElems}

ManyElemTuples == {EqualWeights(ManyElems, w) : w \in Weights}

\* two or more items of one large weight, for the exact solver
MagnitudeTuples == {EqualWeights(n, MaxWeight) : n \in 2..MaxMagnitudeLen}

InitScenarios ==
    /\ call \in {"get_ratio_splitpositions", "bruteforce"}
    /\ access_type \in AccessType
    /\ max_branching_factor \in
         IF call = "bruteforce" THEN {ScenarioBranching}
         ELSE 2..MaxScenarioBranching
    /\ bruteforce_threshold = 0
    /\ elements \in
         IF call = "bruteforce"
           THEN FewElemTuples \cup HugeElemTuples \cup MagnitudeTuples
         ELSE EqualTuples \cup HugeElemTuples \cup ManyElemTuples
    /\ nof_elems = 0
    /\ num_splits = 0
    /\ costs_cache = <<>>
    /\ split_positions = <<>>
    /\ stack = <<>>
    /\ pc = "start"
    /\ exc = "none"
    /\ result = <<>>

\* a frame of bruteforce_worker: its local variables; splits are the
\* splits the loop over cur_split has not finished, cur_split first
WorkerFrame(elems) ==
    [fn |-> "bruteforce_worker", elements |-> elems, entered |-> FALSE,
     best_split |-> <<>>, best_split_cost |-> CAFFEBABE, num_splits |-> 0,
     costs |-> <<>>, splits |-> <<>>, subtree_results |-> <<>>]

InWorker ==
    /\ pc = "bruteforce_worker"
    /\ stack # <<>>
    /\ Top.fn = "bruteforce_worker"

\* bruteforce calls the worker with an empty costs_cache
BfCall ==
    /\ pc = "start"
    /\ call = "bruteforce"
    /\ pc' = "bruteforce_worker"
    /\ stack' = <<WorkerFrame(elements)>>
    /\ UNCHANGED <<args, costs_cache, split_positions, exc, result>>

\* the worker on top returns r: to bruteforce, which returns it, or to
\* "subtree_results.append(result)" of the worker that called it
Deliver(r) ==
    IF Len(stack) = 1
      THEN /\ stack' = <<>>
           /\ pc' = "returned"
           /\ result' = r
      ELSE /\ stack' = [Pop EXCEPT ![Len(stack) - 1].subtree_results = Append(@, r)]
           /\ UNCHANGED <<pc, result>>

\* "if elements in costs_cache: return BruteForceResult(...)"
BfCached ==
    /\ InWorker
    /\ ~Top.entered
    /\ Top.elements \in DOMAIN costs_cache
    /\ Deliver(BruteForceResult(costs_cache[Top.elements],
                                WeightSum(Top.elements)))
    /\ UNCHANGED <<args, costs_cache, split_positions, exc>>

\* the worker on top is at the head of the loop over num_splits
AtLoopHead ==
    /\ InWorker
    /\ Top.splits = <<>>
    /\ Top.entered \/ Top.elements \notin DOMAIN costs_cache

MaxNumSplits(elems) == Min(max_branching_factor - 1, Len(elems) - 1)

\* the next iteration of the loop over num_splits begins with the costs
\* and the splits of its num_splits, unless one of the two calls raised
NumSplitsBegun(costs, splits) ==
    IF costs.exc # "none" THEN Raise(costs.exc) /\ UNCHANGED stack
    ELSE IF splits.exc # "none" THEN Raise(splits.exc) /\ UNCHANGED stack
    ELSE /\ stack' = [stack EXCEPT ![Len(stack)] =
               [Top EXCEPT !.entered = TRUE,
                           !.num_splits = Top.num_splits + 1,
                           !.costs = costs.val,
                           !.splits = splits.val,
                           !.subtree_results = <<>>]]
         /\ UNCHANGED <<pc, exc>>

BfNumSplits ==
    /\ AtLoopHead
    /\ Top.num_splits < MaxNumSplits(Top.elements)
    /\ NumSplitsBegun(access_costs(Top.num_splits + 2, access_type),
                      iter_nsplits(Len(Top.elements), Top.num_splits + 1))
    /\ UNCHANGED <<args, costs_cache, split_positions, result>>

\* the loops are over: the best split and its cost are stored and returned
BfStore ==
    /\ AtLoopHead
    /\ Top.num_splits >= MaxNumSplits(Top.elements)
    /\ costs_cache' = DictSet(costs_cache, Top.elements, Top.best_split_cost)
    /\ split_positions' = DictSet(split_positions, Top.elements, Top.best_split)
    /\ Deliver(BruteForceResult(Top.best_split_cost, WeightSum(Top.elements)))
    /\ UNCHANGED <<args, exc>>

\* the worker on top is in an iteration of the loop over cur_split
InSplit == InWorker /\ Top.splits # <<>>

\* split_to_lists(inlist=elements, insplit=cur_split)
CurSublists == split_to_lists(Top.elements, Head(Top.splits))

\* the next sublist of cur_split: a single element costs 0, a longer
\* sublist is solved by a recursive call
BfSublist ==
    /\ InSplit
    /\ Len(Top.subtree_results) < Len(CurSublists)
    /\ stack' =
         LET sublist == CurSublists[Len(Top.subtree_results) + 1]
         IN  IF Len(sublist) = 1
               THEN [stack EXCEPT ![Len(stack)].subtree_results =
                        Append(@, BruteForceResult(<<>>, BFromInt(sublist[1])))]
               ELSE Append(stack, WorkerFrame(sublist))
    /\ UNCHANGED <<args, costs_cache, split_positions, pc, exc, result>>

\* cur_split of the frame is compared with its best split and the loop
\* moves on to the next split
SplitCompared(frame, total_costs) ==
    stack' = [stack EXCEPT ![Len(stack)] =
        IF IsBetterSplit(total_costs, Head(frame.splits),
                         frame.best_split_cost, frame.best_split)
          THEN [frame EXCEPT !.best_split = Head(frame.splits),
                             !.best_split_cost = total_costs,
                             !.splits = Tail(frame.splits),
                             !.subtree_results = <<>>]
          ELSE [frame EXCEPT !.splits = Tail(frame.splits),
                             !.subtree_results = <<>>]]

\* every sublist of cur_split has its result: the costs are summed up
BfCompare ==
    /\ InSplit
    /\ Len(Top.subtree_results) = Len(CurSublists)
    /\ SplitCompared(Top, BAdd(SumOfCosts(Top.subtree_results),
                               AccessCostsOf(Top.costs, Top.subtree_results)))
    /\ UNCHANGED <<args, costs_cache, split_positions, pc, exc, result>>

NextScenarios ==
    \/ CallAccessCosts
    \/ CallGetRatios
    \/ CallGetRatioSplitpositions
    \/ BfCall
    \/ BfCached
    \/ BfNumSplits
    \/ BfStore
    \/ BfSublist
    \/ BfCompare

SpecScenarios == InitScenarios /\ [][NextScenarios]_vars
----------------------------------------------------------------------------
(* Properties.  The definitions below state what the specification says of *)
(* the optimizer, in its own terms: costs of positions, compositions of a  *)
(* sequence, the cost of a tree read from the split-position table.        *)

\* the cost of position i (from 0) of a node of b parts
PositionCost(policy, b, i) ==
    IF policy = "CONSTANT" THEN 1
    ELSE IF policy = "LINEAR" THEN i + 1
    ELSE IF i = 0 THEN 1
    ELSE Min(i, b - i) + 1

\* the parts of seq cut at the positions cuts
Parts(seq, cuts) ==
    [p \in 1..(Len(cuts) + 1) |->
        SubSeq(seq, (IF p = 1 THEN 0 ELSE cuts[p - 1]) + 1,
                    IF p > Len(cuts) THEN Len(seq) ELSE cuts[p])]

\* the children of the node of seq: its parts, or its elements if it is
\* recorded with no cut
Children(seq, cuts) ==
    IF cuts = <<>> THEN [i \in 1..Len(seq) |-> <<seq[i]>>] ELSE Parts(seq, cuts)

RECURSIVE SumOver(_, _)
\* the sum of f[i] over i in 1..n
SumOver(f, n) == IF n = 0 THEN 0 ELSE f[n] + SumOver(f, n - 1)

\* the cost of reaching the children of a node: access cost of the position
\* times the weight of the child
NodeCost(policy, children) ==
    SumOver([p \in 1..Len(children) |->
                PositionCost(policy, Len(children), p - 1) * Sum(children[p])],
            Len(children))

RECURSIVE TreeCost(_, _, _)
\* the cost of the tree the table records for seq
TreeCost(policy, table, seq) ==
    IF Len(seq) <= 1 THEN 0
    ELSE NodeCost(policy, Children(seq, table[seq]))
           + SumOver([p \in 1..Len(Children(seq, table[seq])) |->
                         TreeCost(policy, table, Children(seq, table[seq])[p])],
                     Len(Children(seq, table[seq])))

RECURSIVE Ascending(_)
\* the elements of a set of numbers in ascending order
Ascending(S) ==
    IF S = {} THEN <<>>
    ELSE <<CHOOSE m \in S : \A x \in S : m <= x>>
            \o Ascending(S \ {CHOOSE m \in S : \A x \in S : m <= x})

\* the compositions of a sequence of n elements with 1..k cuts
Compositions(n, k) ==
    {Ascending(S) : S \in {T \in SUBSET (1..(n - 1)) :
                              Cardinality(T) \in 1..k}}

\* the total cost of cutting seq at cuts, the parts of more than one
\* element costing what the cache holds for them
SplitCost(policy, cache, seq, cuts) ==
    NodeCost(policy, Parts(seq, cuts))
      + SumOver([p \in 1..(Len(cuts) + 1) |->
                    IF Len(Parts(seq, cuts)[p]) = 1 THEN 0
                    ELSE cache[Parts(seq, cuts)[p]]],
                Len(cuts) + 1)

RECURSIVE BValue(_)
\* the number a limb sequence stands for
BValue(x) == IF x = <<>> THEN 0 ELSE Head(x) + LimbBase * BValue(Tail(x))

\* strictly increasing
Increasing(t) == \A i \in 1..(Len(t) - 1) : t[i] < t[i + 1]

\* ratio_based_tree has just returned to main
BuildReturned ==
    /\ call = "main"
    /\ pc = "move_recursively"
    /\ stack = <<Frame("move_recursively", elements)>>

\* the entry point has ended, by a return or by an exception
Ended == pc \in {"returned", "raised"}

\* the heuristic build (threshold 0) of a sequence of two or more
HeuristicBuilt ==
    /\ BuildReturned
    /\ bruteforce_threshold = 0
    /\ access_type \in AccessType
    /\ Len(elements) >= 2

----------------------------------------------------------------------------
\* C1: for a sequence of two or more positive weights, the total cost that
\* bruteforce returns is at most the cost of the tree the ratio heuristic
\* builds (ratio_based_tree with threshold 0, when it returns), a tree's
\* cost being the sum over its grouping nodes of access cost times weight
\* of each child.
C1_BruteforceNotWorse ==
    HeuristicBuilt =>
        BCmp(bruteforce(elements, max_branching_factor, access_type, <<>>).val.costs,
             BFromInt(TreeCost(access_type, split_positions, elements))) <= 0

\* a heuristic tree over more elements than a node may hold that the exact
\* solver beats strictly
C1_Witness ==
    /\ HeuristicBuilt
    /\ Len(elements) > max_branching_factor
    /\ BCmp(bruteforce(elements, max_branching_factor, access_type, <<>>).val.costs,
            BFromInt(TreeCost(access_type, split_positions, elements))) < 0

\* the signatures of two or more elements that a finished bruteforce solved
Solved2 ==
    IF call = "bruteforce" /\ pc = "returned" /\ access_type \in AccessType
      THEN {sig \in DOMAIN split_positions : Len(sig) >= 2}
      ELSE {}

SplitpositionsCalled ==
    /\ call = "get_ratio_splitpositions"
    /\ access_type \in AccessType
    /\ elements # <<>>
    /\ Ended

\* C3: on a non-empty sequence of positive weights and the ratios of any
\* policy with b >= 2, get_ratio_splitpositions raises nothing and returns
\* at most b - 1 cuts, strictly increasing, each in 1..length-1.
C3_SplitpositionsValid ==
    SplitpositionsCalled =>
        /\ pc = "returned"
        /\ Len(result) <= max_branching_factor - 1
        /\ Increasing(result)
        /\ \A i \in 1..Len(result) : result[i] \in 1..(Len(elements) - 1)

\* a call that stopped early: fewer cuts than b - 1 on a sequence long
\* enough for b parts
C3_Witness ==
    /\ SplitpositionsCalled
    /\ pc = "returned"
    /\ Len(elements) >= max_branching_factor
    /\ result # <<>>
    /\ Len(result) < max_branching_factor - 1

\* C4: after ratio_based_tree has returned, the traversal of
\* move_recursively never fails: every sequence it enters is a key of the
\* split-position table, the last recorded cut is below the length, the
\* boundaries 0, cuts, length of a sequence that has elements are strictly
\* increasing, and nothing is raised.
C4_TraversalNeverFails ==
    /\ AtEntry("move_recursively") =>
          /\ Top.folder_list \in DOMAIN split_positions
          /\ LET cuts == split_positions[Top.folder_list]
             IN  /\ cuts # <<>> => cuts[Len(cuts)] < Len(Top.folder_list)
                 /\ Top.folder_list # <<>> =>
                        Increasing(<<0>> \o cuts \o <<Len(Top.folder_list)>>)
    /\ ~(pc = "raised" /\ stack # <<>> /\ Top.fn = "move_recursively")

\* the traversal enters a group of the full sequence that is cut again
C4_Witness ==
    /\ AtEntry("move_recursively")
    /\ Len(stack) >= 2
    /\ Top.folder_list \in DOMAIN split_positions
    /\ split_positions[Top.folder_list] # <<>>

\* C5: ratio_based_tree terminates for every non-empty sequence, policy,
\* max_branching_factor >= 2 and threshold: each recursive call is made on
\* a strictly shorter sequence than its caller's, and the recursion never
\* exhausts the stack.
C5_BuildTerminates ==
    /\ \A i \in 2..Len(stack) :
          stack[i].fn = "ratio_based_tree" =>
              Len(stack[i].folder_list) < Len(stack[i - 1].folder_list)
    /\ exc # "RecursionError"

\* C6: in the table left by bruteforce or ratio_based_tree no grouping node
\* has more than b parts: a recorded non-empty split has at most b - 1 cuts
\* and a signature recorded with the empty tuple has at most b elements.
C6_AtMostBParts ==
    (call \in {"bruteforce", "main"} /\ (Ended \/ BuildReturned)) =>
        \A sig \in DOMAIN split_positions :
            IF split_positions[sig] = <<>>
              THEN Len(sig) <= max_branching_factor
              ELSE Len(split_positions[sig]) <= max_branching_factor - 1

\* an entry point ended on a sequence of one element under a policy
SingleElementEnded ==
    /\ Len(elements) = 1
    /\ access_type \in AccessType
    /\ Ended

\* C7: for a single-element sequence the split positions are empty:
\* get_ratio_splitpositions returns (), and bruteforce leaves exactly the
\* table {(w,): ()}.
C7_SingleElementNotSplit ==
    /\ (SingleElementEnded /\ call = "get_ratio_splitpositions") =>
          pc = "returned" /\ result = <<>>
    /\ (SingleElementEnded /\ call = "bruteforce") =>
          pc = "returned" /\ split_positions = (elements :> <<>>)

\* bruteforce has returned on a single element
C7_Witness ==
    /\ SingleElementEnded
    /\ call = "bruteforce"
    /\ pc = "returned"
    /\ elements \in DOMAIN split_positions

\* C8: for a single-element sequence the internal cost is 0: the cost
\* bruteforce returns, and the cost bruteforce or ratio_based_tree caches
\* for (w,).
C8_SingleElementCostsZero ==
    /\ (SingleElementEnded /\ call = "bruteforce" /\ pc = "returned") =>
          result.costs = <<>> /\ costs_cache[elements] = <<>>
    /\ (BuildReturned /\ access_type \in AccessType) =>
          \A sig \in DOMAIN costs_cache : Len(sig) = 1 => costs_cache[sig] = <<>>

C10_AccessCosts ==
    (/\ call = "access_costs"
     /\ access_type \in AccessType
     /\ max_branching_factor >= 1
     /\ Ended) =>
        /\ pc = "returned"
        /\ Len(result) = max_branching_factor
        /\ \A i \in 0..(max_branching_factor - 1) :
              result[i + 1] =
                 IF access_type = "CONSTANT" THEN 1
                 ELSE IF access_type = "LINEAR" THEN i + 1
                 ELSE IF i = 0 THEN 1
                 ELSE Min(i, max_branching_factor - i) + 1

\* the costs of a wrappable node whose far positions are cheaper again
C10_Witness ==
    /\ call = "access_costs"
    /\ access_type = "WRAPPABLE"
    /\ pc = "returned"
    /\ Len(result) >= 4
    /\ result[Len(result)] < result[Len(result) - 1]

\* C11: an unrecognized cost policy makes the optimizer fail at once with
\* the invalid-argument error: access_costs, bruteforce and ratio_based_tree
\* called with a policy other than WRAPPABLE, LINEAR, CONSTANT end in
\* IllegalArgumentException on any sequence, and the split-position table
\* and the cost cache stay as they were.
C11_UnknownPolicyFails ==
    (access_type \notin AccessType /\ call \in {"access_costs", "bruteforce", "main"}) =>
        /\ costs_cache = <<>>
        /\ split_positions = <<>>
        /\ pc \notin {"returned", "move_recursively"}
        /\ ~(pc = "ratio_based_tree" /\ stack = <<>>)
        /\ pc = "raised" => exc = "IllegalArgumentException"

\* C12: access_costs called with branching factor 0 raises an error under
\* every policy instead of returning a cost sequence.
C12_ZeroBranchingRaises ==
    (call = "access_costs" /\ max_branching_factor = 0 /\ Ended) => pc = "raised"

\* get_ratios has ended on the costs of a policy for b >= 2
RatiosCalled ==
    /\ call = "get_ratios"
    /\ access_type \in AccessType
    /\ max_branching_factor >= 2
    /\ Ended

\* ratios[i] * costs[i] for every position i
RatioTimesCost(ratios, costs) ==
    [i \in 1..Len(ratios) |-> FMul(ratios[i], FFromInt(costs[i]))]

\* C13 as stated: get_ratios returns one ratio per cost, the ratios sum to
\* exactly 1 and ratios[i] * costs[i] == ratios[j] * costs[j] for all
\* positions i, j.
C13_RatiosExact ==
    RatiosCalled =>
        /\ pc = "returned"
        /\ Len(result) = max_branching_factor
        /\ FSum(result, FZero) = FFromInt(1)
        /\ \A i, j \in 1..Len(result) :
              RatioTimesCost(result, access_costs(max_branching_factor, access_type).val)[i]
                = RatioTimesCost(result, access_costs(max_branching_factor, access_type).val)[j]

\* C13: for the costs of every supported policy and b >= 2, get_ratios
\* returns one ratio per cost, the sum of the ratios differs from 1 by less
\* than 1e-6, and ratios[i] * costs[i] and ratios[j] * costs[j] differ by
\* less than 1e-6 for all positions i, j.
C13_RatiosWithinTolerance ==
    RatiosCalled =>
        /\ pc = "returned"
        /\ Len(result) = max_branching_factor
        /\ FLess(FAbs(FSub(FSum(result, FZero), FFromInt(1))), RatioTolerance)
        /\ LET prods == RatioTimesCost(result,
                            access_costs(max_branching_factor, access_type).val)
           IN  \A i, j \in 1..Len(result) :
                  FLess(FAbs(FSub(prods[i], prods[j])), RatioTolerance)

\* ratios whose sum and whose products with the costs are off by rounding
C13_Witness ==
    /\ RatiosCalled
    /\ pc = "returned"
    /\ FSum(result, FZero) # FFromInt(1)
    /\ \E i, j \in 1..Len(result) :
          RatioTimesCost(result, access_costs(max_branching_factor, access_type).val)[i]
            # RatioTimesCost(result, access_costs(max_branching_factor, access_type).val)[j]

RECURSIVE Binomial(_, _)
\* the number of k-element subsets of n elements
Binomial(n, k) ==
    IF k = 0 THEN 1
    ELSE IF n = 0 THEN 0
    ELSE Binomial(n - 1, k - 1) + Binomial(n - 1, k)

RECURSIVE LexLess(_, _)
\* s comes before t in lexicographic order
LexLess(s, t) ==
    IF t = <<>> THEN FALSE
    ELSE IF s = <<>> THEN TRUE
    ELSE IF Head(s) # Head(t) THEN Head(s) < Head(t)
    ELSE LexLess(Tail(s), Tail(t))

RECURSIVE NestedPairs(_, _, _)
\* the pairs (start, stop) with start < stop <= n - 1, from (start, stop)
\* on, in the order of a loop over stop nested in a loop over start
NestedPairs(n, start, stop) ==
    IF start > n - 1 THEN <<>>
    ELSE IF stop > n - 1 THEN NestedPairs(n, start + 1, start + 2)
    ELSE <<<<start, stop>>>> \o NestedPairs(n, start, stop + 1)

\* iter_nsplits was consumed to its end
NsplitsCalled == call = "iter_nsplits" /\ Ended

\* C14: for 1 <= k < n, iter_nsplits(n, k) yields exactly C(n-1, k) cut
\* tuples, each of length k, strictly increasing with every cut in 1..n-1,
\* in strictly ascending lexicographic order (so they are distinct); for
\* k = 2 the pairs (start, stop) with 1 <= start < stop <= n-1 in
\* nested-loop order, for k = n-1 the single tuple (1, ..., n-1).
C14_NsplitsEnumerated ==
    (NsplitsCalled /\ 1 <= num_splits /\ num_splits < nof_elems) =>
        /\ pc = "returned"
        /\ Len(result) = Binomial(nof_elems - 1, num_splits)
        /\ \A i \in 1..Len(result) :
              /\ Len(result[i]) = num_splits
              /\ Increasing(result[i])
              /\ \A j \in 1..num_splits : result[i][j] \in 1..(nof_elems - 1)
        /\ \A i \in 1..(Len(result) - 1) : LexLess(result[i], result[i + 1])
        /\ num_splits = nof_elems - 1 => result = <<[j \in 1..num_splits |-> j]>>
        /\ num_splits = 2 => result = NestedPairs(nof_elems, 1, 2)

\* an enumeration of several tuples of several cuts
C14_Witness ==
    /\ NsplitsCalled
    /\ pc = "returned"
    /\ num_splits >= 3
    /\ Len(result) >= 10

\* C15: iter_nsplits(nof_elems, num_splits) with nof_elems <= num_splits
\* raises ValueError when consumed and yields no cut tuple.
C15_TooFewElementsRaises ==
    (NsplitsCalled /\ nof_elems <= num_splits) =>
        /\ pc = "raised"
        /\ exc = "ValueError"
        /\ result = <<>>

\* more splits asked for than there are elements
C15_Witness ==
    /\ NsplitsCalled
    /\ pc = "raised"
    /\ nof_elems >= 1
    /\ nof_elems < num_splits

\* an entry point of the scenarios has ended on the seven items of weight
\* 1.0 followed by the huge item and m more items of weight 1.0, with
\* branching factor 4
HugeElemEnded(m) ==
    /\ call \in {"bruteforce", "get_ratio_splitpositions"}
    /\ max_branching_factor = ScenarioBranching
    /\ elements = HugeElemTuple(m)
    /\ Ended

\* the cuts of the full sequence: those bruteforce recorded, or the tuple
\* get_ratio_splitpositions returned
ScenarioCuts ==
    IF call = "bruteforce"
      THEN (IF elements \in DOMAIN split_positions
              THEN split_positions[elements] ELSE <<>>)
      ELSE result

\* bruteforce has ended on seven items of weight 1.0 with policy WRAPPABLE
\* and branching factor 4
SevenEqualEnded ==
    /\ call = "bruteforce"
    /\ access_type = "WRAPPABLE"
    /\ max_branching_factor = ScenarioBranching
    /\ elements = EqualWeights(LeadingElems, 1)
    /\ Ended

\* C16: for policy WRAPPABLE, max_branching_factor 4 and seven elements of
\* weight 1.0 each, bruteforce records the split positions (4, 5, 6) for
\* the full sequence.
C16_SevenEqualWrappable ==
    SevenEqualEnded =>
        /\ pc = "returned"
        /\ elements \in DOMAIN split_positions
        /\ split_positions[elements] = <<4, 5, 6>>

\* bruteforce has returned on the seven items, with a cost below the
\* placeholder
C16_Witness ==
    /\ SevenEqualEnded
    /\ pc = "returned"
    /\ BCmp(result.costs, CAFFEBABE) < 0

\* C17: for seven elements of weight 1.0 followed by one element of weight
\* 9247.0, branching factor 4 and every policy, the last cut position is 7
\* both in the split bruteforce records and in the tuple
\* get_ratio_splitpositions returns.
C17_LastCutBeforeHuge ==
    HugeElemEnded(0) =>
        /\ pc = "returned"
        /\ ScenarioCuts # <<>>
        /\ ScenarioCuts[Len(ScenarioCuts)] = LeadingElems

\* bruteforce has cut the light items as well as before the huge one
C17_Witness ==
    /\ HugeElemEnded(0)
    /\ call = "bruteforce"
    /\ pc = "returned"
    /\ Len(ScenarioCuts) >= 2

\* C18: for seven elements of weight 1.0, one of weight 9247.0, then two
\* more of weight 1.0, branching factor 4 and every policy, the split
\* bruteforce records contains the cuts 7 and 8, and
\* get_ratio_splitpositions returns exactly (7, 8, 9).
C18_CutsAroundHuge ==
    HugeElemEnded(TrailingElems) =>
        /\ pc = "returned"
        /\ \E i \in 1..Len(ScenarioCuts) : ScenarioCuts[i] = LeadingElems
        /\ \E i \in 1..Len(ScenarioCuts) : ScenarioCuts[i] = LeadingElems + 1
        /\ call = "get_ratio_splitpositions" =>
              result = <<LeadingElems, LeadingElems + 1, LeadingElems + 2>>

\* bruteforce has isolated the huge item with a split other than the one
\* of the heuristic
C18_Witness ==
    /\ HugeElemEnded(TrailingElems)
    /\ call = "bruteforce"
    /\ pc = "returned"
    /\ ScenarioCuts # <<LeadingElems, LeadingElems + 1, LeadingElems + 2>>

\* get_ratio_splitpositions has ended on 128 equal weights with the ratios
\* of WRAPPABLE for branching factor 4
ManyElemsEnded ==
    /\ call = "get_ratio_splitpositions"
    /\ access_type = "WRAPPABLE"
    /\ max_branching_factor = ScenarioBranching
    /\ elements \in ManyElemTuples
    /\ Ended

\* C19: for 128 equal-weight elements, policy WRAPPABLE and branching
\* factor 4, get_ratio_splitpositions returns exactly (55, 82, 100).
C19_ManyEqualWrappable ==
    ManyElemsEnded =>
        /\ pc = "returned"
        /\ result = <<55, 82, 100>>

\* the call has returned three cuts on 128 elements of a weight other
\* than 1
C19_Witness ==
    /\ ManyElemsEnded
    /\ pc = "returned"
    /\ elements[1] # 1
    /\ Len(result) = ScenarioBranching - 1

\* the gaps between consecutive cuts, with the gap from 0 to the first cut
Gaps(cuts) ==
    {cuts[i] - (IF i = 1 THEN 0 ELSE cuts[i - 1]) : i \in 1..Len(cuts)}

\* get_ratio_splitpositions has ended on two or more equal weights with
\* the ratios of CONSTANT
ConstantEqualEnded ==
    /\ call = "get_ratio_splitpositions"
    /\ access_type = "CONSTANT"
    /\ Len(elements) >= 2
    /\ \A i \in 1..Len(elements) : elements[i] = elements[1]
    /\ Ended

\* C20: for policy CONSTANT, every branching factor >= 2 and every
\* equal-weight sequence of length >= 2, get_ratio_splitpositions returns
\* a non-empty tuple of cuts whose gaps between consecutive cuts, together
\* with the gap from 0 to the first cut, take at most 2 distinct values.
C20_ConstantBalanced ==
    ConstantEqualEnded =>
        /\ pc = "returned"
        /\ result # <<>>
        /\ Cardinality(Gaps(result)) <= 2

\* cuts that cannot be evenly spaced: four or more of them with two
\* different gaps
C20_Witness ==
    /\ ConstantEqualEnded
    /\ pc = "returned"
    /\ Len(result) >= 4
    /\ Cardinality(Gaps(result)) = 2

\* the largest of the few elements of test_few_elements_are_splitted_elementwise
FewElems == 4

\* the cuts 1, ..., n - 1 that make every element a part of its own
Elementwise(n) == [i \in 1..(n - 1) |-> i]

\* bruteforce has ended on 1..FewElems elements of equal weight with
\* max_branching_factor 4, under a policy
FewEqualEnded ==
    /\ call = "bruteforce"
    /\ access_type \in AccessType
    /\ max_branching_factor = ScenarioBranching
    /\ Len(elements) \in 1..FewElems
    /\ \A i \in 1..Len(elements) : elements[i] = elements[1]
    /\ Ended

C22_TableHitReturns ==
    [][(AtEntry("ratio_based_tree") /\ Top.folder_list \in DOMAIN split_positions)
          => /\ stack' = Pop
             /\ UNCHANGED <<costs_cache, split_positions, pc, exc>>]_vars

\* main builds a sequence shorter than bruteforce_threshold
Delegable ==
    /\ call = "main"
    /\ Len(elements) < bruteforce_threshold

\* the call of ratio_based_tree that main made is over
BuildOver ==
    \/ pc = "raised"
    \/ pc = "ratio_based_tree" /\ stack = <<>>

\* the dicts and the exception are the ones of the outcome r of a solver
SameOutcome(r) ==
    /\ split_positions = r.split_positions
    /\ costs_cache = r.costs_cache
    /\ exc = r.exc

\* C23: for every sequence whose length is < bruteforce_threshold,
\* ratio_based_tree started from an empty table and cache delegates
\* entirely to the exact solver: it leaves exactly the split-position table
\* and the cost cache that bruteforce leaves for the same weights, policy
\* and max_branching_factor, raising what bruteforce raises, and neither
\* the heuristic split with its call of get_ratio_splitpositions nor the
\* leaf branch is ever taken.
C23_BelowThresholdDelegates ==
    /\ []((Delegable /\ BuildOver) =>
            SameOutcome(bruteforce(elements, max_branching_factor, access_type,
                                   <<>>)))
    /\ [][Delegable => ~(RbtSplit \/ RbtLeaf)]_vars

\* a delegated build of more elements than a node may hold has returned
\* with a split of the full sequence
C23_Witness ==
    /\ Delegable
    /\ BuildReturned
    /\ Len(elements) > max_branching_factor
    /\ elements \in DOMAIN costs_cache
    /\ split_positions[elements] # <<>>

\* the branching factors that bruteforce_worker passes to access_costs
\* while it works on elems itself: num_splits + 1 for every num_splits of
\* its loop
WorkerCostCalls(elems) == {n + 1 : n \in 1..MaxNumSplits(elems)}

\* C24: a sequence of length exactly 1 is handled as a dedicated base case:
\* neither bruteforce nor ratio_based_tree, for any bruteforce_threshold,
\* ever calls access_costs with branching factor 1 while processing a
\* length-1 sequence.  The leaf branch of ratio_based_tree calls
\* access_costs with the length of the sequence; the worker calls it with
\* the branching factors WorkerCostCalls.
C24_SingleElementBaseCase ==
    [][/\ ~(RbtLeaf /\ Len(Top.folder_list) = 1)
       /\ (CallBruteforce /\ Len(elements) = 1) =>
             1 \notin WorkerCostCalls(elements)
       /\ (RbtBruteforce /\ Len(Top.folder_list) = 1) =>
             1 \notin WorkerCostCalls(Top.folder_list)]_vars

\* C25: for the empty weighted sequence the internal cost is 0: the cost
\* that bruteforce returns, and the cost that bruteforce or
\* ratio_based_tree stores in the cost cache for the empty signature, is 0.
C25_EmptySequenceCostsZero ==
    /\ (/\ call = "bruteforce"
        /\ elements = <<>>
        /\ access_type \in AccessType
        /\ pc = "returned") =>
          result.costs = <<>> /\ costs_cache[<<>>] = <<>>
    /\ (BuildReturned /\ access_type \in AccessType) =>
          (<<>> \in DOMAIN costs_cache => costs_cache[<<>>] = <<>>)

\* the ratios get_ratio_splitpositions was called with
RatiosGiven == get_ratios(access_costs(max_branching_factor, access_type).val).val

\* the suffix still unallocated when cut k of cuts is made begins after
\* the cut before it
SuffixStart(cuts, k) == IF k = 1 THEN 0 ELSE cuts[k - 1]

\* |x * d - n * s| for naturals: the distance of x / s from n / d, times
\* s * d
BDist(x, s, n, d) ==
    IF BCmp(BMul(x, d), BMul(n, s)) >= 0
      THEN BSub(BMul(x, d), BMul(n, s))
      ELSE BSub(BMul(n, s), BMul(x, d))

\* the least exponent of the ratios 1..k
MinExp(ratios, k) ==
    CHOOSE e \in {ratios[j].e : j \in 1..k} : \A j \in 1..k : e <= ratios[j].e

RECURSIVE BSumScaled(_, _, _)
\* the sum of the ratios 1..k as a multiple of 2^e
BSumScaled(ratios, k, e) ==
    IF k = 0 THEN <<>>
    ELSE BAdd(BShl(ratios[k].m, ratios[k].e - e), BSumScaled(ratios, k - 1, e))

\* ratios[k] / (1 - sum of ratios[1..k-1]) as <<numerator, denominator>>,
\* both multiples of 2^MinExp
ExactTarget(ratios, k) ==
    LET e == MinExp(ratios, k)
    IN  <<BShl(ratios[k].m, ratios[k].e - e),
          BSub(BShl(<<1>>, 0 - e), BSumScaled(ratios, k - 1, e))>>

\* prefix length p of the suffix of weights after start is closest to the
\* fraction target[1] / target[2] of its weight, the longer of two equally
\* close prefixes taken; exact arithmetic
ExactClosest(weights, start, p, target) ==
    LET s == BFromInt(Sum(SubSeq(weights, start + 1, Len(weights))))
        dist(q) == BDist(BFromInt(Sum(SubSeq(weights, start + 1, start + q))), s,
                         target[1], target[2])
    IN  \A q \in 1..(Len(weights) - start) :
           \/ BCmp(dist(p), dist(q)) < 0
           \/ BCmp(dist(p), dist(q)) = 0 /\ q <= p

RescaleNext(ratio, r) == FMul(r, FSub(FFromInt(1), FDiv(ratio, r)))

RECURSIVE RescaleBefore(_, _)
\* rescale_ratio when part k is carved off: the product over the earlier
\* parts of 1 - adjusted target, in binary64
RescaleBefore(ratios, k) ==
    IF k = 1 THEN FFromInt(1)
    ELSE RescaleNext(ratios[k - 1], RescaleBefore(ratios, k - 1))

\* prefix length p of the suffix with the cumulative fractions cum is
\* closest to target, the longer of two equally close prefixes taken;
\* binary64 arithmetic
FloatClosest(cum, p, target) ==
    \A q \in 1..Len(cum) :
       \/ FLess(FAbs(FSub(cum[p], target)), FAbs(FSub(cum[q], target)))
       \/ /\ FCmp(FAbs(FSub(cum[p], target)), FAbs(FSub(cum[q], target))) = 0
          /\ q <= p

SolvedTwoOrMore ==
    /\ call = "bruteforce"
    /\ access_type \in AccessType
    /\ Len(elements) >= 2
    /\ \A i \in 1..Len(elements) : elements[i] > 0
    /\ pc = "returned"

\* C27: for every sequence of two or more positive weights, of any
\* magnitude, bruteforce records a non-empty split for the sequence, and
\* the placeholder 0xCAFFEBABE is neither the cost it caches for the
\* sequence nor the cost it returns.
C27_PlaceholderNeverSurvives ==
    SolvedTwoOrMore =>
        /\ elements \in DOMAIN split_positions
        /\ split_positions[elements] # <<>>
        /\ elements \in DOMAIN costs_cache
        /\ costs_cache[elements] # CAFFEBABE
        /\ result.costs # CAFFEBABE


RECURSIVE BSumOver(_, _)
\* the sum of the exact naturals f[i] over i in 1..n
BSumOver(f, n) == IF n = 0 THEN <<>> ELSE BAdd(f[n], BSumOver(f, n - 1))

\* the total cost of cutting seq at cuts as an exact natural: access cost of
\* each position times the weight of its part, plus what the cache holds
\* for the parts of more than one element
BSplitCost(policy, cache, seq, cuts) ==
    BAdd(BSumOver([p \in 1..(Len(cuts) + 1) |->
                      BMul(BFromInt(PositionCost(policy, Len(cuts) + 1, p - 1)),
                           WeightSum(Parts(seq, cuts)[p]))],
                  Len(cuts) + 1),
         BSumOver([p \in 1..(Len(cuts) + 1) |->
                      IF Len(Parts(seq, cuts)[p]) > 1
                        THEN cache[Parts(seq, cuts)[p]]
                        ELSE <<>>],
                  Len(cuts) + 1))

\* the signatures of two or more elements in the cost cache of a finished
\* bruteforce
Cached2 ==
    IF call = "bruteforce" /\ pc = "returned" /\ access_type \in AccessType
      THEN {sig \in DOMAIN costs_cache : Len(sig) >= 2}
      ELSE {}

\* C28: after bruteforce returns, for every signature s of two or more
\* elements in the cost cache, the parts of more than one element of s cut
\* at table[s] are keys of the table and of the cache, and cache[s] is the
\* sum of access cost times weight over the parts (access costs for
\* len(table[s]) + 1 positions) plus the cached costs of those parts.
C28_CacheAgreesWithTable ==
    \A sig \in Cached2 :
        /\ sig \in DOMAIN split_positions
        /\ \A p \in 1..(Len(split_positions[sig]) + 1) :
              Len(Parts(sig, split_positions[sig])[p]) > 1 =>
                /\ Parts(sig, split_positions[sig])[p] \in DOMAIN split_positions
                /\ Parts(sig, split_positions[sig])[p] \in DOMAIN costs_cache
        /\ BCmp(costs_cache[sig],
                BSplitCost(access_type, costs_cache, sig,
                           split_positions[sig])) = 0

====
